---------------------------- MODULE Spec2Model ----------------------------
(***************************************************************************)
(* Model of unified_braille_processor.py (the translation core and the     *)
(* interactive demo loop run_unified_demo) and of braille_gateway.py (the  *)
(* folder watcher and the /whatsapp webhook).                              *)
(*                                                                         *)
(* A Python str is a sequence of one-character strings.  A Braille cell is *)
(* one character, written "U28xx" after its code point.  A Python value    *)
(* that may be of several types is a record with a "kind" field.           *)
(***************************************************************************)
EXTENDS Integers, Sequences, FiniteSets, TLC

VARIABLES
    BRAILLE_MAP,      \* the module-level dict of unified_braille_processor
    pc,               \* position of run_unified_demo in its loop body
    text,             \* local text (marked with the capital sign at l.106)
    source,           \* local source
    ground_truth,     \* local ground_truth (None or a str)
    display_text,     \* local display_text (the original text)
    tokens,           \* tokens of translate_to_simplified_braille
    braille_parts,    \* its list braille_output, one str per token
    braille_output,   \* the joined str it returns
    english_chars,    \* calculate_contraction_ratio's results
    braille_cells,
    ratio,
    calculated_wer,   \* a float, or the str "N/A"
    shown,            \* what the display step of this iteration printed
    fs,               \* incoming_messages/: what is at each path
    next_id,          \* number of the next file written into the folder
    now,              \* int(time.time())
    events,           \* on_created events the observer has not dispatched
    w_pc,             \* position of Watcher.on_created
    w_path,           \* its local p
    h_pc,             \* position of the /whatsapp handler
    h_path,           \* its local fname
    processed,        \* per file, the invocations of a processing function
    calls             \* the finished invocations of the processing functions

demo_vars == <<pc, text, source, ground_truth, display_text, tokens,
               braille_parts, braille_output, english_chars, braille_cells,
               ratio, calculated_wer, shown>>

gateway_vars == <<fs, next_id, now, events, w_pc, w_path, h_pc, h_path,
                  processed, calls>>

vars == <<BRAILLE_MAP, demo_vars, gateway_vars>>

----------------------------------------------------------------------------
(* Bounds and input sets *)

\* Longest text read from a file or returned by the speech recogniser.
MaxLen == 3

\* Characters an input text is made of: letters with and without a
\* single-character entry, an upper-case letter, a digit, a punctuation
\* mark of the tokenizer's set, and white space.
Alphabet == {"t", "h", "e", "i", "k", "T", "1", ".", " "}

Texts == UNION {[1..n -> Alphabet] : n \in 0..MaxLen}

\* Files written into incoming_messages/ in one run, and the seconds the
\* clock may advance.
MaxFiles == 3
MaxClock == 1

\* What the operator may type at the ground-truth prompt: an empty line or a
\* phrase of at least one word.
GroundTruths ==
    { <<>>, <<"t", "h", "e">>, <<"T", "h", "e", " ", "i", "t">> }

----------------------------------------------------------------------------
(* Python values *)

None == [kind |-> "None"]
Str(s) == [kind |-> "str", value |-> s]
Float(n, d) == [kind |-> "float", num |-> n, den |-> d]
PyInt(n) == [kind |-> "int", num |-> n, den |-> 1]
Raised(e) == [kind |-> "raise", exc |-> e]

IsNumber(v) == v.kind \in {"float", "int"}

\* Truth value of an Optional[str]: None and "" are false.
Truthy(v) == v.kind = "str" /\ v.value # <<>>

\* a / b
TrueDiv(a, b) == IF b = 0 THEN Raised("ZeroDivisionError") ELSE Float(a, b)

\* format(v, ".4f"): defined for numbers, ValueError for a str.
FormatFixed(v) == IF IsNumber(v) THEN v ELSE Raised("ValueError")

UPPER == <<"A", "B", "C", "D", "E", "F", "G", "H", "I", "J", "K", "L", "M",
           "N", "O", "P", "Q", "R", "S", "T", "U", "V", "W", "X", "Y", "Z">>
LOWER == <<"a", "b", "c", "d", "e", "f", "g", "h", "i", "j", "k", "l", "m",
           "n", "o", "p", "q", "r", "s", "t", "u", "v", "w", "x", "y", "z">>
DIGITS == {"0", "1", "2", "3", "4", "5", "6", "7", "8", "9"}

Range(s) == {s[i] : i \in DOMAIN s}

\* str.isupper() of one character
IsUpper(c) == c \in Range(UPPER)

\* [a-zA-Z]
IsAsciiLetter(c) == c \in Range(UPPER) \cup Range(LOWER)

\* str.lower()
LowerChar(c) ==
    IF IsUpper(c) THEN LOWER[CHOOSE i \in DOMAIN UPPER : UPPER[i] = c] ELSE c
Lower(s) == [i \in DOMAIN s |-> LowerChar(s[i])]

\* str.strip()
IsSpace(c) == c = " "
RECURSIVE LStrip(_)
LStrip(s) == IF s # <<>> /\ IsSpace(Head(s)) THEN LStrip(Tail(s)) ELSE s
RECURSIVE RStrip(_)
RStrip(s) ==
    IF s # <<>> /\ IsSpace(s[Len(s)]) THEN RStrip(SubSeq(s, 1, Len(s) - 1))
    ELSE s
Strip(s) == RStrip(LStrip(s))

\* needle in s
Contains(s, needle) ==
    \E i \in 1..(Len(s) - Len(needle) + 1) :
        SubSeq(s, i, i + Len(needle) - 1) = needle

\* sep.join(parts)
RECURSIVE Join(_, _)
Join(sep, parts) ==
    IF parts = <<>> THEN <<>>
    ELSE IF Len(parts) = 1 THEN parts[1]
    ELSE parts[1] \o sep \o Join(sep, Tail(parts))

----------------------------------------------------------------------------
(* The symbol table and the translator *)

CAPITAL_SIGN == "U2820"
SPACE_CELL == "U2800"

SymbolTable ==
    (<<"t", "h", "e">> :> <<"U282E">>) @@
    (<<"a", "n", "d">> :> <<"U282F">>) @@
    (<<"f", "o", "r">> :> <<"U283F">>) @@
    (<<"w", "i", "t", "h">> :> <<"U283E">>) @@
    (<<"o", "f">> :> <<"U2837">>) @@
    (<<"i", "s">> :> <<"U280A", "U280E">>) @@
    (<<"t", "o">> :> <<"U281E", "U2815">>) @@
    (<<"i", "t">> :> <<"U280A", "U281E">>) @@
    (<<"t", "h", "a", "t">> :> <<"U2839">>) @@
    (<<"w", "a", "s">> :> <<"U283A", "U2801", "U280E">>) @@
    (<<"w", "i", "l", "l">> :> <<"U283A", "U2807">>) @@
    (<<"c", "a", "n">> :> <<"U2809", "U2801", "U281D">>) @@
    (<<"y", "o", "u">> :> <<"U283D">>) @@
    (<<"a">> :> <<"U2801">>) @@
    (<<"b">> :> <<"U2803">>) @@
    (<<"c">> :> <<"U2809">>) @@
    (<<"d">> :> <<"U2819">>) @@
    (<<"e">> :> <<"U2811">>) @@
    (<<"f">> :> <<"U280B">>) @@
    (<<"g">> :> <<"U281B">>) @@
    (<<"h">> :> <<"U2813">>) @@
    (<<"i">> :> <<"U280A">>) @@
    (<<"j">> :> <<"U281A">>) @@
    (<<"l">> :> <<"U2807">>) @@
    (<<"m">> :> <<"U280D">>) @@
    (<<"n">> :> <<"U281D">>) @@
    (<<"o">> :> <<"U2815">>) @@
    (<<"p">> :> <<"U280F">>) @@
    (<<"q">> :> <<"U281F">>) @@
    (<<"r">> :> <<"U2817">>) @@
    (<<"s">> :> <<"U280E">>) @@
    (<<"t">> :> <<"U281E">>) @@
    (<<"u">> :> <<"U2825">>) @@
    (<<"v">> :> <<"U2827">>) @@
    (<<"w">> :> <<"U283A">>) @@
    (<<"x">> :> <<"U282D">>) @@
    (<<"y">> :> <<"U283D">>) @@
    (<<"z">> :> <<"U2835">>) @@
    (<<" ">> :> <<"U2800">>) @@
    (<<",">> :> <<"U2804">>) @@
    (<<".">> :> <<"U2832">>) @@
    (<<"?">> :> <<"U2839">>) @@
    (<<"!">> :> <<"U2816">>)

\* [\w'] : letters, digits, underscore, apostrophe.  A Braille pattern
\* (general category So) is not a word character.
IsWordChar(c) == IsAsciiLetter(c) \/ c \in DIGITS \/ c \in {"_", "'"}

\* [.,!?]
IsPunct(c) == c \in {".", ",", "!", "?"}

\* End of the maximal run [\w']+ starting at i: the first index after it.
RECURSIVE WordRunEnd(_, _)
WordRunEnd(s, i) ==
    IF i <= Len(s) /\ IsWordChar(s[i]) THEN WordRunEnd(s, i + 1) ELSE i

\* re.findall(r"[\w']+|[.,!?]", s) scanning from index i
RECURSIVE FindAll(_, _)
FindAll(s, i) ==
    IF i > Len(s) THEN <<>>
    ELSE IF IsWordChar(s[i])
         THEN <<SubSeq(s, i, WordRunEnd(s, i) - 1)>>
                  \o FindAll(s, WordRunEnd(s, i))
    ELSE IF IsPunct(s[i]) THEN << <<s[i]>> >> \o FindAll(s, i + 1)
    ELSE FindAll(s, i + 1)

Tokenize(t) == FindAll(Lower(t), 1)

\* BRAILLE_MAP.get(char, ""): a character without an entry is dropped.
CharLookup_Dropping(char) ==
    IF <<char>> \in DOMAIN BRAILLE_MAP THEN BRAILLE_MAP[<<char>>] ELSE <<>>

\* BRAILLE_MAP.get(char, char)
CharLookup(char) ==
    IF <<char>> \in DOMAIN BRAILLE_MAP THEN BRAILLE_MAP[<<char>>] ELSE <<char>>

\* "".join([BRAILLE_MAP.get(char, char) for char in token])
RECURSIVE BrailleWord(_)
BrailleWord(token) ==
    IF token = <<>> THEN <<>>
    ELSE CharLookup(Head(token)) \o BrailleWord(Tail(token))

\* The loop body without the whole-token test: every token is spelled out.
TranslateToken_NoPrecedence(token) == BrailleWord(token)

\* The body of the loop over the tokens
TranslateToken(token) ==
    IF token \in DOMAIN BRAILLE_MAP THEN BRAILLE_MAP[token]
    ELSE BrailleWord(token)

TranslateTokens(toks) == [i \in DOMAIN toks |-> TranslateToken(toks[i])]

translate_to_simplified_braille(t) ==
    Join(<<SPACE_CELL>>, TranslateTokens(Tokenize(t)))

----------------------------------------------------------------------------
(* Analytics *)

\* re.sub(r'[^a-zA-Z]', '', english_text)
RemoveNonLetters(s) == SelectSeq(s, IsAsciiLetter)

\* The ratio without the guard on the letter count.
ContractionRatio_Unguarded(chars, cells) == TrueDiv(cells, chars)

\* ratio = braille_cells / english_chars if english_chars > 0 else 0
ContractionRatio(chars, cells) ==
    IF chars > 0 THEN TrueDiv(cells, chars) ELSE PyInt(0)

calculate_contraction_ratio(english_text, output) ==
    [english_chars |-> Len(RemoveNonLetters(english_text)),
     braille_cells |-> Len(output),
     ratio |-> ContractionRatio(Len(RemoveNonLetters(english_text)),
                                Len(output))]

\* str.split(): the words between runs of white space
RECURSIVE SpaceRunEnd(_, _)
SpaceRunEnd(s, i) ==
    IF i <= Len(s) /\ ~IsSpace(s[i]) THEN SpaceRunEnd(s, i + 1) ELSE i
RECURSIVE SplitFrom(_, _)
SplitFrom(s, i) ==
    IF i > Len(s) THEN <<>>
    ELSE IF IsSpace(s[i]) THEN SplitFrom(s, i + 1)
    ELSE <<SubSeq(s, i, SpaceRunEnd(s, i) - 1)>>
             \o SplitFrom(s, SpaceRunEnd(s, i))
Words(s) == SplitFrom(s, 1)

Min2(a, b) == IF a <= b THEN a ELSE b

\* Word-level edit distance
RECURSIVE EditDistance(_, _)
EditDistance(a, b) ==
    IF a = <<>> THEN Len(b)
    ELSE IF b = <<>> THEN Len(a)
    ELSE IF Head(a) = Head(b) THEN EditDistance(Tail(a), Tail(b))
    ELSE 1 + Min2(EditDistance(Tail(a), Tail(b)),
                  Min2(EditDistance(Tail(a), b), EditDistance(a, Tail(b))))

\* jiwer.wer(reference, hypothesis)
wer(reference, hypothesis) ==
    IF Words(reference) = <<>> THEN Raised("ValueError")
    ELSE Float(EditDistance(Words(reference), Words(hypothesis)),
               Len(Words(reference)))

----------------------------------------------------------------------------
(* Input modules of unified_braille_processor *)

\* The text every "file not found" and recogniser message starts with.
ERROR_PREFIX == <<"E", "r", "r", "o", "r", ":">>

\* process_text_file(file_path): exists and content are the file system's
\* answer for file_path.  The result is the 4-tuple the function returns.
process_text_file(exists, content) ==
    IF exists THEN <<Strip(content), "TEXT_FILE", Float(0, 1), None>>
    ELSE <<ERROR_PREFIX, "Error", Float(0, 1), None>>

\* What the speech recogniser does with an existing audio file.
RecogniserOutcomes == {"ok", "UnknownValueError", "RequestError", "Exception"}

\* process_audio_file(file_path): outcome and transcript are the
\* recogniser's answer, typed is the line read by input().  The measured
\* latency is not modelled (it only feeds the printed total).
process_audio_file(exists, outcome, transcript, typed) ==
    IF ~exists THEN <<ERROR_PREFIX, "Error", Float(0, 1), None>>
    ELSE IF outcome = "ok"
         THEN <<Strip(transcript), "AUDIO_FILE", Float(0, 1), Str(typed)>>
    ELSE <<ERROR_PREFIX, "Error", Float(0, 1), None>>

----------------------------------------------------------------------------
(* run_unified_demo *)

NothingShown == [wer_line |-> None, complete |-> FALSE]

DemoInit ==
    /\ pc = "prompt"
    /\ text = <<>>
    /\ source = ""
    /\ ground_truth = None
    /\ display_text = <<>>
    /\ tokens = <<>>
    /\ braille_parts = <<>>
    /\ braille_output = <<>>
    /\ english_chars = 0
    /\ braille_cells = 0
    /\ ratio = PyInt(0)
    /\ calculated_wer = None
    /\ shown = NothingShown

\* The locals of an iteration are dead once it ends (each is assigned before
\* it is read again), so the next iteration starts from the initial values.
ResetLocals ==
    /\ text' = <<>>
    /\ source' = ""
    /\ ground_truth' = None
    /\ display_text' = <<>>
    /\ tokens' = <<>>
    /\ braille_parts' = <<>>
    /\ braille_output' = <<>>
    /\ english_chars' = 0
    /\ braille_cells' = 0
    /\ ratio' = PyInt(0)
    /\ calculated_wer' = None
    /\ shown' = NothingShown

\* source == "Error" or "Error:" in text
IsErrorResult(r) == IF r[2] = "Error" THEN TRUE ELSE Contains(r[1], ERROR_PREFIX)

\* l.96-98 and the assignment of l.92/94 that precedes them
TakeInput(r) ==
    IF IsErrorResult(r)
    THEN /\ pc' = "prompt"
         /\ ResetLocals
    ELSE /\ pc' = "capitalize"
         /\ text' = r[1]
         /\ source' = r[2]
         /\ ground_truth' = r[4]
         /\ UNCHANGED <<display_text, tokens, braille_parts, braille_output,
                        english_chars, braille_cells, ratio, calculated_wer,
                        shown>>

\* choice == 'quit'
Quit ==
    /\ pc = "prompt"
    /\ pc' = "quit"
    /\ UNCHANGED <<BRAILLE_MAP, gateway_vars, text, source, ground_truth, display_text,
                   tokens, braille_parts, braille_output, english_chars,
                   braille_cells, ratio, calculated_wer, shown>>

\* choice == 'text'
ChooseText ==
    /\ pc = "prompt"
    /\ \E exists \in BOOLEAN, content \in Texts :
           TakeInput(process_text_file(exists, content))
    /\ UNCHANGED <<BRAILLE_MAP, gateway_vars>>

\* choice == 'audio'
ChooseAudio ==
    /\ pc = "prompt"
    /\ \E exists \in BOOLEAN, outcome \in RecogniserOutcomes,
          transcript \in Texts, typed \in GroundTruths :
           TakeInput(process_audio_file(exists, outcome, transcript, typed))
    /\ UNCHANGED <<BRAILLE_MAP, gateway_vars>>

\* l.103-106: the capitalization rule
MarkCapital(t) ==
    IF t # <<>> /\ IsUpper(t[1]) THEN <<CAPITAL_SIGN>> \o t ELSE t

Capitalize ==
    /\ pc = "capitalize"
    /\ display_text' = text
    /\ text' = MarkCapital(text)
    /\ pc' = "translate"
    /\ UNCHANGED <<BRAILLE_MAP, gateway_vars, source, ground_truth, tokens, braille_parts,
                   braille_output, english_chars, braille_cells, ratio,
                   calculated_wer, shown>>

\* l.108
Translate ==
    /\ pc = "translate"
    /\ tokens' = Tokenize(text)
    /\ braille_parts' = TranslateTokens(Tokenize(text))
    /\ braille_output' = translate_to_simplified_braille(text)
    /\ pc' = "metrics"
    /\ UNCHANGED <<BRAILLE_MAP, gateway_vars, text, source, ground_truth, display_text,
                   english_chars, braille_cells, ratio, calculated_wer, shown>>

\* The text handed to calculate_contraction_ratio at l.112
MetricsText == display_text

\* l.112
Metrics ==
    /\ pc = "metrics"
    /\ LET m == calculate_contraction_ratio(MetricsText, braille_output) IN
        /\ english_chars' = m.english_chars
        /\ braille_cells' = m.braille_cells
        /\ ratio' = m.ratio
        /\ pc' = IF m.ratio.kind = "raise" THEN "crashed" ELSE "wer"
    /\ UNCHANGED <<BRAILLE_MAP, gateway_vars, text, source, ground_truth, display_text,
                   tokens, braille_parts, braille_output, calculated_wer,
                   shown>>

\* The str used when no word-error rate is computed
NOT_APPLICABLE == Str(<<"N", "/", "A">>)

\* l.115
WordErrorRate(truth, hypothesis) ==
    IF Truthy(truth) THEN wer(Lower(truth.value), Lower(hypothesis))
    ELSE NOT_APPLICABLE

ComputeWER ==
    /\ pc = "wer"
    /\ calculated_wer' = WordErrorRate(ground_truth, display_text)
    /\ pc' = IF WordErrorRate(ground_truth, display_text).kind = "raise"
             THEN "crashed" ELSE "display"
    /\ UNCHANGED <<BRAILLE_MAP, gateway_vars, text, source, ground_truth, display_text,
                   tokens, braille_parts, braille_output, english_chars,
                   braille_cells, ratio, shown>>

\* l.123-124: the WER line is printed for an audio source only
WerLine(src, w) == IF src = "AUDIO_FILE" THEN FormatFixed(w) ELSE None

\* l.117-131
Display ==
    /\ pc = "display"
    /\ LET line == WerLine(source, calculated_wer) IN
        IF line.kind = "raise"
        THEN /\ pc' = "crashed"
             /\ shown' = [wer_line |-> None, complete |-> FALSE]
        ELSE /\ pc' = "displayed"
             /\ shown' = [wer_line |-> line, complete |-> TRUE]
    /\ UNCHANGED <<BRAILLE_MAP, gateway_vars, text, source, ground_truth, display_text,
                   tokens, braille_parts, braille_output, english_chars,
                   braille_cells, ratio, calculated_wer>>

\* l.78: back to the prompt
LoopBack ==
    /\ pc = "displayed"
    /\ pc' = "prompt"
    /\ ResetLocals
    /\ UNCHANGED <<BRAILLE_MAP, gateway_vars>>


\* A choice that is none of 'text', 'audio', 'quit': l.84-86
InvalidChoice ==
    /\ pc = "prompt"
    /\ pc' = "prompt"
    /\ ResetLocals
    /\ UNCHANGED <<BRAILLE_MAP, gateway_vars>>

----------------------------------------------------------------------------
(* braille_gateway: the folder, the watcher and the webhook *)

Path(name, ts, suffix) == [name |-> name, ts |-> ts, suffix |-> suffix]

\* Files and directories other programs put into the folder.
DroppedPaths ==
    {Path("drop", 0, ".txt"), Path("drop", 0, ".wav"), Path("drop", 0, ".pdf"),
     Path("dir", 0, "")}

\* INBOX / f"msg_{int(time.time())}.txt" and ....ogg
MessagePath(ts, suffix) == Path("msg", ts, suffix)

Paths ==
    DroppedPaths \cup {MessagePath(t, x) : t \in 0..MaxClock, x \in {".txt", ".ogg"}}

\* Message bodies and file contents.
Bodies == { <<"t", "h", "e">>, <<"T", "1">> }

Absent == [id |-> 0, content |-> <<>>, is_dir |-> FALSE]
File(id, content) == [id |-> id, content |-> content, is_dir |-> FALSE]
Directory(id) == [id |-> id, content |-> <<>>, is_dir |-> TRUE]

Exists(p) == fs[p].id # 0

TEXT_SUFFIXES == {".txt"}
AUDIO_SUFFIXES == {".wav", ".mp3", ".ogg", ".m4a"}

\* hasattr(ubp, "process_text_file"), hasattr(ubp, "process_audio_file")
UbpHasProcessTextFile == TRUE
UbpHasProcessAudioFile == TRUE

\* text, braille = value
Unpack2(value) ==
    IF Len(value) = 2 THEN [kind |-> "ok", text |-> value[1], braille |-> value[2]]
    ELSE Raised("ValueError")

\* What one invocation of a processing function did.
Outcome(displayed, logged, error) ==
    [displayed |-> displayed, logged |-> logged, error |-> error]

\* The try block of the gateway's process_text_file(path), l.43-56
gateway_process_text_file(p) ==
    IF UbpHasProcessTextFile
    THEN LET got == Unpack2(process_text_file(Exists(p), fs[p].content)) IN
         IF got.kind = "raise" THEN Outcome(FALSE, FALSE, got.exc)
         ELSE Outcome(TRUE, TRUE, "")
    ELSE IF Exists(p) THEN Outcome(TRUE, TRUE, "")
    ELSE Outcome(FALSE, FALSE, "FileNotFoundError")

\* The try block of the gateway's process_audio_file(path), l.60-68
gateway_process_audio_file(p, outcome, transcript, typed) ==
    IF UbpHasProcessAudioFile
    THEN LET got == Unpack2(process_audio_file(Exists(p), outcome, transcript,
                                               typed)) IN
         IF got.kind = "raise" THEN Outcome(FALSE, FALSE, got.exc)
         ELSE Outcome(TRUE, TRUE, "")
    ELSE Outcome(FALSE, FALSE, "")

Call(by, kind, p, readable, out) ==
    [by |-> by, kind |-> kind, id |-> fs[p].id, readable |-> readable,
     displayed |-> out.displayed, logged |-> out.logged, error |-> out.error]

\* The bookkeeping of one invocation on path p
Record(by, kind, p, readable, out) ==
    /\ calls' = calls \cup {Call(by, kind, p, readable, out)}
    /\ processed' = IF Exists(p)
                    THEN [processed EXCEPT ![fs[p].id] = @ + 1]
                    ELSE processed

InvokeText(by, p) ==
    Record(by, "text", p, Exists(p), gateway_process_text_file(p))

InvokeAudio(by, p) ==
    \E outcome \in RecogniserOutcomes, typed \in GroundTruths :
        Record(by, "audio", p, Exists(p) /\ outcome = "ok",
               gateway_process_audio_file(p, outcome, <<"t", "h", "e">>, typed))

\* Writing a file: a path that did not exist is created, which the observer
\* reports; an existing one is overwritten, which it reports as a change.
WriteFile(p, content) ==
    /\ next_id <= MaxFiles
    /\ fs' = [fs EXCEPT ![p] = File(next_id, content)]
    /\ next_id' = next_id + 1
    /\ events' = IF Exists(p) THEN events ELSE Append(events, p)

GatewayInit ==
    /\ fs = [p \in Paths |-> Absent]
    /\ next_id = 1
    /\ now = 0
    /\ events = <<>>
    /\ w_pc = "idle"
    /\ w_path = Path("", 0, "")
    /\ h_pc = "idle"
    /\ h_path = Path("", 0, "")
    /\ processed = [i \in 1..MaxFiles |-> 0]
    /\ calls = {}

\* time passes
Tick ==
    /\ now < MaxClock
    /\ now' = now + 1
    /\ UNCHANGED <<BRAILLE_MAP, demo_vars, fs, next_id, events, w_pc, w_path,
                   h_pc, h_path, processed, calls>>

\* Another program puts a file into the folder.
DropFile ==
    /\ \E p \in DroppedPaths, body \in Bodies :
          /\ ~Exists(p)
          /\ p.suffix # ""
          /\ WriteFile(p, body)
    /\ UNCHANGED <<BRAILLE_MAP, demo_vars, now, w_pc, w_path, h_pc, h_path,
                   processed, calls>>

\* Another program makes a directory in the folder.
MakeDirectory ==
    /\ \E p \in DroppedPaths :
          /\ ~Exists(p)
          /\ p.suffix = ""
          /\ next_id <= MaxFiles
          /\ fs' = [fs EXCEPT ![p] = Directory(next_id)]
          /\ next_id' = next_id + 1
          /\ events' = Append(events, p)
    /\ UNCHANGED <<BRAILLE_MAP, demo_vars, now, w_pc, w_path, h_pc, h_path,
                   processed, calls>>

\* Watcher.on_created, l.74-76: the observer thread takes the next event;
\* a directory's is dropped, a file's handler sleeps 0.2 s.
OnCreated ==
    /\ w_pc = "idle"
    /\ events # <<>>
    /\ events' = Tail(events)
    /\ w_path' = Head(events)
    /\ w_pc' = IF fs[Head(events)].is_dir THEN "idle" ELSE "slept"
    /\ UNCHANGED <<BRAILLE_MAP, demo_vars, fs, next_id, now, h_pc, h_path,
                   processed, calls>>

\* l.77-78: process_text_file(p)
WatcherProcessText ==
    /\ w_pc = "slept"
    /\ w_path.suffix \in TEXT_SUFFIXES
    /\ InvokeText("watcher", w_path)
    /\ w_pc' = "unlink"
    /\ UNCHANGED <<BRAILLE_MAP, demo_vars, fs, next_id, now, events, w_path,
                   h_pc, h_path>>

\* l.79-80: process_audio_file(p)
WatcherProcessAudio ==
    /\ w_pc = "slept"
    /\ w_path.suffix \in AUDIO_SUFFIXES
    /\ InvokeAudio("watcher", w_path)
    /\ w_pc' = "unlink"
    /\ UNCHANGED <<BRAILLE_MAP, demo_vars, fs, next_id, now, events, w_path,
                   h_pc, h_path>>

\* l.81-82: any other suffix is ignored
WatcherIgnore ==
    /\ w_pc = "slept"
    /\ w_path.suffix \notin TEXT_SUFFIXES \cup AUDIO_SUFFIXES
    /\ w_pc' = "idle"
    /\ UNCHANGED <<BRAILLE_MAP, demo_vars, fs, next_id, now, events, w_path,
                   h_pc, h_path, processed, calls>>

\* p.unlink(missing_ok=True)
WatcherUnlink ==
    /\ w_pc = "unlink"
    /\ fs' = [fs EXCEPT ![w_path] = Absent]
    /\ w_pc' = "idle"
    /\ UNCHANGED <<BRAILLE_MAP, demo_vars, next_id, now, events, w_path,
                   h_pc, h_path, processed, calls>>

\* whatsapp(), l.116-118: a text message is written into the folder
WebhookText ==
    /\ h_pc = "idle"
    /\ \E body \in Bodies : WriteFile(MessagePath(now, ".txt"), body)
    /\ h_path' = MessagePath(now, ".txt")
    /\ h_pc' = "process_text"
    /\ UNCHANGED <<BRAILLE_MAP, demo_vars, now, w_pc, w_path, processed, calls>>

\* l.119
WebhookProcessText ==
    /\ h_pc = "process_text"
    /\ InvokeText("webhook", h_path)
    /\ h_pc' = "idle"
    /\ UNCHANGED <<BRAILLE_MAP, demo_vars, fs, next_id, now, events, w_pc,
                   w_path, h_path>>

\* l.112-114 with download_media succeeding: the audio is written
WebhookAudio ==
    /\ h_pc = "idle"
    /\ WriteFile(MessagePath(now, ".ogg"), <<>>)
    /\ h_path' = MessagePath(now, ".ogg")
    /\ h_pc' = "process_audio"
    /\ UNCHANGED <<BRAILLE_MAP, demo_vars, now, w_pc, w_path, processed, calls>>

\* l.112-115 with download_media failing: before the file is opened
\* (nothing is written) or while it is written (a partial file stays)
WebhookAudioFailed ==
    /\ h_pc = "idle"
    /\ \E opened \in BOOLEAN :
          IF opened THEN WriteFile(MessagePath(now, ".ogg"), <<>>)
          ELSE UNCHANGED <<fs, next_id, events>>
    /\ UNCHANGED <<BRAILLE_MAP, demo_vars, now, w_pc, w_path, h_pc, h_path,
                   processed, calls>>

\* l.114
WebhookProcessAudio ==
    /\ h_pc = "process_audio"
    /\ InvokeAudio("webhook", h_path)
    /\ h_pc' = "idle"
    /\ UNCHANGED <<BRAILLE_MAP, demo_vars, fs, next_id, now, events, w_pc,
                   w_path, h_path>>

Init ==
    /\ BRAILLE_MAP = SymbolTable
    /\ DemoInit
    /\ GatewayInit

\* The demo loop of unified_braille_processor
Next ==
    \/ Quit
    \/ InvalidChoice
    \/ ChooseText
    \/ ChooseAudio
    \/ Capitalize
    \/ Translate
    \/ Metrics
    \/ ComputeWER
    \/ Display
    \/ LoopBack

Spec == Init /\ [][Next]_vars

\* The gateway: the observer thread and the webhook handler
GatewayNext ==
    \/ Tick
    \/ DropFile
    \/ MakeDirectory
    \/ OnCreated
    \/ WatcherProcessText
    \/ WatcherProcessAudio
    \/ WatcherIgnore
    \/ WatcherUnlink
    \/ WebhookText
    \/ WebhookProcessText
    \/ WebhookAudio
    \/ WebhookAudioFailed
    \/ WebhookProcessAudio

GatewaySpec == Init /\ [][GatewayNext]_vars

----------------------------------------------------------------------------
(* Properties *)

\* The translation of this iteration has been made.
Translated == pc \in {"metrics", "wer", "display", "displayed", "crashed"}

\* The metrics of this iteration have been computed.
Measured == pc \in {"wer", "display", "displayed", "crashed"}

\* The word-error rate of this iteration has been settled.
Rated == pc \in {"display", "displayed", "crashed"}

RequiredCharacters == Range(LOWER) \cup {" ", ",", ".", "?", "!"}

\* C1: the symbol table has a key for each of the 26 lower-case letters, for
\* the space and for each of , . ? !
C1_TableHasRequiredKeys ==
    \A c \in RequiredCharacters : <<c>> \in DOMAIN BRAILLE_MAP

\* C2: every whole-word key maps to strictly fewer cells than the entries of
\* its letters put together.
C2_ContractionsAreShorter ==
    \A k \in DOMAIN BRAILLE_MAP :
        Len(k) > 1 => Len(BRAILLE_MAP[k]) < Len(BrailleWord(k))

C4_CapitalSignReachesOutput ==
    Translated =>
        IF display_text # <<>> /\ IsUpper(display_text[1])
        THEN /\ braille_output # <<>>
             /\ braille_output[1] = CAPITAL_SIGN
             /\ braille_output # translate_to_simplified_braille(display_text)
        ELSE braille_output = translate_to_simplified_braille(display_text)

\* C5: the letter count is the number of characters of the original text in
\* [A-Za-z], the cell count is the length of the output, the ratio is
\* cells / letters when there are letters and exactly 0 when there are none,
\* and computing it never fails with a division error.
C5_ContractionRatio ==
    /\ ratio.kind # "raise"
    /\ Measured =>
          /\ english_chars =
                Cardinality({i \in DOMAIN display_text :
                                IsAsciiLetter(display_text[i])})
          /\ braille_cells = Len(braille_output)
          /\ IF english_chars > 0
             THEN /\ ratio.kind = "float"
                  /\ ratio.den > 0
                  /\ ratio.num * english_chars = braille_cells * ratio.den
             ELSE ratio = PyInt(0)

\* C5's case: a text without letters that produced cells has ratio 0.
C5_Witness ==
    /\ pc = "wer"
    /\ display_text # <<>>
    /\ english_chars = 0
    /\ braille_cells > 0
    /\ ratio = PyInt(0)

\* C6: a numeric word-error rate is computed exactly when a reference string
\* was passed, whatever it holds, and "N/A" is used exactly when none was.
C6_WerIffReference ==
    Rated =>
        /\ IsNumber(calculated_wer) <=> ground_truth.kind = "str"
        /\ calculated_wer = NOT_APPLICABLE <=> ground_truth = None

\* C7: in a token that is no key, a character without an entry of its own
\* stays as it is at its position and every other character is replaced by
\* its entry; translation ends normally for every text (an iteration fails
\* only later, in the display step's WER line).
C7_UnsupportedPassThrough ==
    /\ pc = "crashed" =>
          source = "AUDIO_FILE" /\ calculated_wer = NOT_APPLICABLE
    /\ Translated =>
          \A i \in DOMAIN tokens :
              tokens[i] \notin DOMAIN BRAILLE_MAP =>
                  /\ Len(braille_parts[i]) = Len(tokens[i])
                  /\ \A j \in DOMAIN tokens[i] :
                        IF <<tokens[i][j]>> \in DOMAIN BRAILLE_MAP
                        THEN <<braille_parts[i][j]>> = BRAILLE_MAP[<<tokens[i][j]>>]
                        ELSE braille_parts[i][j] = tokens[i][j]

\* C7's case: a token with a digit, which has no entry, beside a letter that
\* has one.
C7_Witness ==
    /\ Translated
    /\ \E i \in DOMAIN tokens :
          /\ tokens[i] = <<"t", "1">>
          /\ braille_parts[i] = <<"U281E", "1">>

\* C8: when no word-error rate was computed the display step does not fail,
\* shows the sentinel instead of a number, and the loop goes on.
C8_AbsentWerShowsSentinel ==
    Rated /\ ~IsNumber(calculated_wer) =>
        /\ pc # "crashed"
        /\ pc = "displayed" =>
              /\ shown.complete
              /\ shown.wer_line = NOT_APPLICABLE
              /\ ENABLED LoopBack

\* C9: every invocation of a processing function of the gateway on a
\* readable file reaches display_braille and log_output.
C9_ProcessedFilesAreDisplayed ==
    \A c \in calls : c.readable => c.displayed /\ c.logged

\* C10: no file of the folder is handed to a processing function twice.
C10_ProcessedAtMostOnce ==
    \A i \in DOMAIN processed : processed[i] <= 1

============================================================================
